---- MODULE Spec2Model ----
(***************************************************************************)
(* State-machine model of index.js (cordova-res-generator): the promise    *)
(* chain  check -> generate -> catch  of the entry point, one action per   *)
(* promise handler or library callback.                                    *)
(*                                                                         *)
(* JavaScript strings that the program splits or compares are modelled as  *)
(* sequences of atoms: an atom is the comma or a comma-free piece of text. *)
(* The atoms are chosen so that a registry key is spelled by exactly one   *)
(* atom; the string "android,ios" is <<"android", ",", "ios">> and the     *)
(* string "android" is <<"android">>.                                      *)
(***************************************************************************)
EXTENDS Integers, Sequences, FiniteSets, TLC

VARIABLES
    program_platforms,   \* program.platforms as the option parser delivers it
    g_settings,          \* g_settings (index.js:278)
    pc,                  \* position of the run in the promise chain
    value,               \* value the settled promise hands to the next handler
    err,                 \* rejection reason / thrown error travelling the chain
    g_selectedPlatforms, \* index.js:52
    g_imageObjects,      \* index.js:51
    imageObjects,        \* local of getImages (index.js:101)
    modules,             \* require cache: definition module path -> exports
    configs,             \* local of generate (index.js:244)
    ci,                  \* Q.mapSeries position in configs (index.js:251)
    di,                  \* Q.mapSeries position in config.definitions (index.js:226)
    pending,             \* writes issued whose callback has not run yet
    fs_dirs,             \* directories that exist on disk
    fs_files,            \* files on disk: records [path, width, height]
    out,                 \* lines printed through display / console.log
    io                   \* external calls issued so far, in order

vars == <<program_platforms, g_settings, pc, value, err, g_selectedPlatforms,
          g_imageObjects, imageObjects, modules, configs, ci, di, pending,
          fs_dirs, fs_files, out, io>>

\* Longest platform option text (in atoms) the command line supplies.
MaxFilterLen == 3

Comma == ","
Atoms == {"android", "ios", "windows", "blackberry10", "bogus", " ", Comma}

RECURSIVE SeqsUpTo(_, _)
SeqsUpTo(S, n) ==
    IF n = 0 THEN {<<>>}
    ELSE LET shorter == SeqsUpTo(S, n - 1)
         IN  shorter \cup {Append(s, a) : s \in {t \in shorter : Len(t) = n - 1}, a \in S}

\* JavaScript values of program.platforms: undefined, true (the flag given
\* without a value) or a string.
JsUndefined == [type |-> "undefined", val |-> <<>>]
JsTrue == [type |-> "boolean", val |-> <<>>]
JsString(s) == [type |-> "string", val |-> s]
OptionValues ==
    {JsUndefined, JsTrue} \cup {JsString(s) : s \in SeqsUpTo(Atoms, MaxFilterLen)}

\* JavaScript truthiness: undefined and "" are falsy.
Truthy(v) == v.type = "boolean" \/ (v.type = "string" /\ v.val # <<>>)
\* a || b
JsOr(a, b) == IF Truthy(a) THEN a ELSE b

Null == [tag |-> "null"]
Undefined == [tag |-> "undefined"]
Image(w, h) == [tag |-> "image", width |-> w, height |-> h]

IconSize == 1024
SplashSize == 2732

Display(level, msg, arg) == [level |-> level, msg |-> msg, arg |-> arg]
Call(op, arg) == [op |-> op, arg |-> arg]

----------------------------------------------------------------------------
(* Platform registry *)

PLATFORMS ==
    [p \in {"android", "ios", "windows", "blackberry10"} |->
        [definitions |->
            IF p = "blackberry10"
            THEN <<<<"icons", p>>>>
            ELSE <<<<"icons", p>>, <<"splash", p>>>>]]

\* _.keys(PLATFORMS), in insertion order, each key as a string.
platformsKeys == <<<<"android">>, <<"ios">>, <<"windows">>, <<"blackberry10">>>>

Range(s) == {s[i] : i \in DOMAIN s}

RECURSIVE Split(_)
\* String.prototype.split(','): always at least one token; "" gives [""].
Split(s) ==
    IF \A i \in DOMAIN s : s[i] # Comma
    THEN <<s>>
    ELSE LET i == CHOOSE k \in DOMAIN s :
                     s[k] = Comma /\ \A j \in 1..(k - 1) : s[j] # Comma
         IN  <<SubSeq(s, 1, i - 1)>> \o Split(SubSeq(s, i + 1, Len(s)))

RECURSIVE Filter(_, _)
Filter(s, known) ==
    IF s = <<>> THEN <<>>
    ELSE IF (Head(s) \in Range(platformsKeys)) = known
         THEN <<Head(s)>> \o Filter(Tail(s), known)
         ELSE Filter(Tail(s), known)

\* Faulty variant: unknown tokens are dropped instead of rejecting the selection.
checkPlatformsLenient(settings) ==
    IF ~Truthy(settings.platforms) \/ settings.platforms.type # "string"
    THEN [state |-> "resolved", value |-> platformsKeys, unknown |-> <<>>,
          line |-> Display("success", "Processing files for all platforms", <<>>)]
    ELSE [state |-> "resolved",
          value |-> Filter(Split(settings.platforms.val), TRUE), unknown |-> <<>>,
          line |-> Display("success", "Processing files for",
                           Filter(Split(settings.platforms.val), TRUE))]

\* Faulty variant: the selection is returned in registry order, without duplicates.
checkPlatformsRegistryOrder(settings) ==
    IF ~Truthy(settings.platforms) \/ settings.platforms.type # "string"
    THEN [state |-> "resolved", value |-> platformsKeys, unknown |-> <<>>,
          line |-> Display("success", "Processing files for all platforms", <<>>)]
    ELSE LET platforms == Split(settings.platforms.val)
             platformsUnknown == Filter(platforms, FALSE)
         IN  IF Len(platformsUnknown) > 0
             THEN [state |-> "rejected", value |-> <<>>, unknown |-> platformsUnknown,
                   line |-> Display("error", "Bad platforms", platformsUnknown)]
             ELSE [state |-> "resolved",
                   value |-> SelectSeq(platformsKeys, LAMBDA k : k \in Range(platforms)),
                   unknown |-> <<>>,
                   line |-> Display("success", "Processing files for",
                                    SelectSeq(platformsKeys,
                                              LAMBDA k : k \in Range(platforms)))]

\* Faulty variant: without a filter nothing is selected.
checkPlatformsNoDefault(settings) ==
    IF ~Truthy(settings.platforms) \/ settings.platforms.type # "string"
    THEN [state |-> "resolved", value |-> <<>>, unknown |-> <<>>,
          line |-> Display("success", "Processing files for all platforms", <<>>)]
    ELSE LET platforms == Split(settings.platforms.val)
             platformsUnknown == Filter(platforms, FALSE)
         IN  IF Len(platformsUnknown) > 0
             THEN [state |-> "rejected", value |-> <<>>, unknown |-> platformsUnknown,
                   line |-> Display("error", "Bad platforms", platformsUnknown)]
             ELSE [state |-> "resolved", value |-> Filter(platforms, TRUE),
                   unknown |-> <<>>,
                   line |-> Display("success", "Processing files for",
                                    Filter(platforms, TRUE))]

\* The promise checkPlatforms returns, with the line it prints.
checkPlatforms(settings) ==
    IF ~Truthy(settings.platforms) \/ settings.platforms.type # "string"
    THEN [state |-> "resolved", value |-> platformsKeys, unknown |-> <<>>,
          line |-> Display("success", "Processing files for all platforms", <<>>)]
    ELSE LET platforms == Split(settings.platforms.val)
             platformsToProcess == Filter(platforms, TRUE)
             platformsUnknown == Filter(platforms, FALSE)
         IN  IF Len(platformsUnknown) > 0
             THEN [state |-> "rejected", value |-> <<>>, unknown |-> platformsUnknown,
                   line |-> Display("error", "Bad platforms", platformsUnknown)]
             ELSE [state |-> "resolved", value |-> platformsToProcess, unknown |-> <<>>,
                   line |-> Display("success", "Processing files for", platformsToProcess)]

----------------------------------------------------------------------------
(* Definition modules.  The files ./platforms/<kind>/<platform> hold the    *)
(* per-platform tables; their shape is {platform, type, path, definitions}, *)
(* an icon definition is {name, size} and a splash definition is            *)
(* {name, width, height}, no dimension exceeding the source image's.  The   *)
(* content of a module is an input of the run: require() may deliver any of *)
(* the listed variants.                                                     *)

Variants == {"a", "b"}

IconDefinitions(v) ==
    IF v = "a"
    THEN <<[name |-> "icon-36.png", size |-> 36],
           [name |-> "icon-1024.png", size |-> 1024]>>
    ELSE <<[name |-> "icon-57.png", size |-> 57]>>

SplashDefinitions(v) ==
    IF v = "a"
    THEN <<[name |-> "splash-775x375.png", width |-> 775, height |-> 375],
           [name |-> "splash-2732x2732.png", width |-> 2732, height |-> 2732]>>
    ELSE <<[name |-> "splash-320x480.png", width |-> 320, height |-> 480],
           [name |-> "splash-1125x2436.png", width |-> 1125, height |-> 2436]>>

DefinitionModule(def, v) ==
    LET type == IF def[1] = "icons" THEN "icon" ELSE "splash"
    IN  [platform |-> def[2],
         type |-> type,
         path |-> <<def[2], type>>,
         definitions |-> IF type = "icon" THEN IconDefinitions(v)
                         ELSE SplashDefinitions(v)]

----------------------------------------------------------------------------
(* Helpers of the promise chain *)

\* Faulty variant: a rejected promise still runs the next fulfilment handler.
ChainIgnoringRejection(state, next) == next

\* p.then(handler): the handler runs only when p is fulfilled; a rejection
\* skips every later .then and lands in the .catch of the entry point.
Chain(state, next) == IF state = "resolved" THEN next ELSE "catch"

\* Faulty variant: only the width is compared.
IconOkWidthOnly(width, height) == width = IconSize

IconOk(width, height) == width = IconSize /\ width = height

SplashOk(width, height) == width = SplashSize /\ width = height

\* Bitmap sizes Jimp.read may deliver for the two source files.
IconDims == {512, 1023, IconSize}
SplashDims == {1024, 2731, SplashSize}

\* path.join on paths held as sequences of segments.
PathJoin(a, b) == a \o b

RECURSIVE Flatten(_)
Flatten(ss) == IF ss = <<>> THEN <<>> ELSE Head(ss) \o Flatten(Tail(ss))

----------------------------------------------------------------------------
Init ==
    /\ program_platforms \in OptionValues
    /\ g_settings = [iconfile |-> <<"resources", "icon.png">>,
                     splashfile |-> <<"resources", "splash.png">>,
                     platforms |-> JsOr(program_platforms, JsUndefined),
                     outputdirectory |-> <<"resources">>]
    /\ pc = "check"
    /\ value = Undefined
    /\ err = "none"
    /\ g_selectedPlatforms = <<>>
    /\ g_imageObjects = Undefined
    /\ imageObjects = Undefined
    /\ modules = <<>>
    /\ configs = <<>>
    /\ ci = 0
    /\ di = 0
    /\ pending = {}
    /\ fs_dirs \in {{}, {<<"resources">>}}
    /\ fs_files = {}
    /\ out = <<>>
    /\ io = <<>>

\* check(settings), up to the promise checkPlatforms returns (index.js:56-59).
Check ==
    /\ pc = "check"
    /\ LET p == checkPlatforms(g_settings)
       IN  /\ out' = out \o <<Display("header", "Checking files and directories", <<>>),
                              p.line>>
           /\ value' = [tag |-> "platforms", list |-> p.value]
           /\ err' = IF p.state = "rejected" THEN "Bad platforms" ELSE err
           /\ pc' = Chain(p.state, "then60")
    /\ UNCHANGED <<program_platforms, g_settings, g_selectedPlatforms, g_imageObjects,
                   imageObjects, modules, configs, ci, di, pending, fs_dirs,
                   fs_files, io>>

\* (selPlatforms) => g_selectedPlatforms = selPlatforms
Then60 ==
    /\ pc = "then60"
    /\ g_selectedPlatforms' = value.list
    /\ pc' = "then61"
    /\ UNCHANGED <<program_platforms, g_settings, value, err, g_imageObjects,
                   imageObjects, modules, configs, ci, di, pending, fs_dirs,
                   fs_files, out, io>>

\* () => getImages(settings): checkIconFile issues Jimp.read(settings.iconfile).
Then61 ==
    /\ pc = "then61"
    /\ imageObjects' = [icon |-> Null, splash |-> Null]
    /\ io' = Append(io, Call("Jimp.read", g_settings.iconfile))
    /\ pc' = "iconRead"
    /\ UNCHANGED <<program_platforms, g_settings, value, err, g_selectedPlatforms,
                   g_imageObjects, modules, configs, ci, di, pending, fs_dirs,
                   fs_files, out>>

\* Jimp.read(icon) delivers an image: the .then at index.js:120.
IconRead ==
    /\ pc = "iconRead"
    /\ \E width \in IconDims, height \in IconDims :
          IF IconOk(width, height)
          THEN /\ out' = Append(out, Display("success", "Icon file ok", <<width, height>>))
               /\ value' = Image(width, height)
               /\ err' = err
               /\ pc' = Chain("resolved", "then107")
          ELSE /\ out' = Append(out, Display("error", "Bad icon file", <<width, height>>))
               /\ value' = value
               /\ err' = "Bad image format"
               /\ pc' = Chain("rejected", "then107")
    /\ UNCHANGED <<program_platforms, g_settings, g_selectedPlatforms, g_imageObjects,
                   imageObjects, modules, configs, ci, di, pending, fs_dirs,
                   fs_files, io>>

\* Jimp.read(icon) fails: the .catch at index.js:131.
IconReadError ==
    /\ pc = "iconRead"
    /\ out' = Append(out, Display("error", "Could not load icon file", <<>>))
    /\ err' = "load error"
    /\ pc' = Chain("rejected", "then107")
    /\ UNCHANGED <<program_platforms, g_settings, value, g_selectedPlatforms,
                   g_imageObjects, imageObjects, modules, configs, ci, di, pending,
                   fs_dirs, fs_files, io>>

\* (image) => { imageObjects.icon = image; }
Then107 ==
    /\ pc = "then107"
    /\ imageObjects' = [imageObjects EXCEPT !.icon = value]
    /\ pc' = "then110"
    /\ UNCHANGED <<program_platforms, g_settings, value, err, g_selectedPlatforms,
                   g_imageObjects, modules, configs, ci, di, pending, fs_dirs,
                   fs_files, out, io>>

\* () => checkSplashFile(...): issues Jimp.read(settings.splashfile).
Then110 ==
    /\ pc = "then110"
    /\ io' = Append(io, Call("Jimp.read", g_settings.splashfile))
    /\ pc' = "splashRead"
    /\ UNCHANGED <<program_platforms, g_settings, value, err, g_selectedPlatforms,
                   g_imageObjects, imageObjects, modules, configs, ci, di, pending,
                   fs_dirs, fs_files, out>>

\* Jimp.read(splash) delivers an image: the .then at index.js:143.
SplashRead ==
    /\ pc = "splashRead"
    /\ \E width \in SplashDims, height \in SplashDims :
          IF SplashOk(width, height)
          THEN /\ out' = Append(out, Display("success", "Splash file ok", <<width, height>>))
               /\ value' = Image(width, height)
               /\ err' = err
               /\ pc' = Chain("resolved", "then111")
          ELSE /\ out' = Append(out, Display("error", "Bad splash file", <<width, height>>))
               /\ value' = value
               /\ err' = "Bad image format"
               /\ pc' = Chain("rejected", "then111")
    /\ UNCHANGED <<program_platforms, g_settings, g_selectedPlatforms, g_imageObjects,
                   imageObjects, modules, configs, ci, di, pending, fs_dirs,
                   fs_files, io>>

\* Jimp.read(splash) fails: the .catch at index.js:154.
SplashReadError ==
    /\ pc = "splashRead"
    /\ out' = Append(out, Display("error", "Could not load splash file", <<>>))
    /\ err' = "load error"
    /\ pc' = Chain("rejected", "then111")
    /\ UNCHANGED <<program_platforms, g_settings, value, g_selectedPlatforms,
                   g_imageObjects, imageObjects, modules, configs, ci, di, pending,
                   fs_dirs, fs_files, io>>

\* (image) => { imageObjects.splash = image; return imageObjects; }
Then111 ==
    /\ pc = "then111"
    /\ imageObjects' = [imageObjects EXCEPT !.splash = value]
    /\ value' = [tag |-> "imageObjects", icon |-> imageObjects.icon, splash |-> value]
    /\ pc' = "then62"
    /\ UNCHANGED <<program_platforms, g_settings, err, g_selectedPlatforms,
                   g_imageObjects, modules, configs, ci, di, pending, fs_dirs,
                   fs_files, out, io>>

\* (iobjs) => { g_imageObjects = iobjs; }
Then62 ==
    /\ pc = "then62"
    /\ g_imageObjects' = value
    /\ pc' = "then65"
    /\ UNCHANGED <<program_platforms, g_settings, value, err, g_selectedPlatforms,
                   imageObjects, modules, configs, ci, di, pending, fs_dirs,
                   fs_files, out, io>>

\* () => checkOutPutDir(settings): issues fs.pathExists(dir).
Then65 ==
    /\ pc = "then65"
    /\ io' = Append(io, Call("pathExists", g_settings.outputdirectory))
    /\ pc' = "pathExists"
    /\ UNCHANGED <<program_platforms, g_settings, value, err, g_selectedPlatforms,
                   g_imageObjects, imageObjects, modules, configs, ci, di, pending,
                   fs_dirs, fs_files, out>>

\* (exists) => { ... } at index.js:168.
PathExists ==
    /\ pc = "pathExists"
    /\ LET dir == g_settings.outputdirectory
       IN  IF dir \in fs_dirs
           THEN /\ out' = Append(out, Display("success", "Output directory ok", dir))
                /\ err' = err
                /\ pc' = Chain("resolved", "then291")
           ELSE /\ out' = Append(out, Display("error", "Output directory not found", dir))
                /\ err' = "Output directory not found"
                /\ pc' = Chain("rejected", "then291")
    /\ UNCHANGED <<program_platforms, g_settings, value, g_selectedPlatforms,
                   g_imageObjects, imageObjects, modules, configs, ci, di, pending,
                   fs_dirs, fs_files, io>>

----------------------------------------------------------------------------
(* Generation *)

\* A JavaScript number n / d, kept exact as a fraction.
Quot(n, d) == [num |-> n, den |-> d]
IsInteger(q) == q.num % q.den = 0

\* Faulty variant: the offset is the whole difference, not half of it.
CropOffsetNotHalved(imageDim, defDim) == Quot(imageDim - defDim, 1)

\* (image.bitmap.width - definition.width) / 2
CropOffset(imageDim, defDim) == Quot(imageDim - defDim, 2)

\* Faulty variant: the file is placed directly in the output directory.
outputFilePathFlat(settings, config, definition) ==
    PathJoin(settings.outputdirectory, <<definition.name>>)

\* path.join(path.join(settings.outputdirectory, config.path), definition.name)
outputFilePath(settings, config, definition) ==
    PathJoin(PathJoin(settings.outputdirectory, config.path), <<definition.name>>)

\* transformIcon up to the write it issues: a clone of the icon resized to
\* size x size.
transformIcon(imageObj, settings, config, definition) ==
    [path |-> outputFilePath(settings, config, definition),
     source |-> imageObj.icon,
     rect |-> <<>>,
     width |-> definition.size,
     height |-> definition.size]

\* transformSplash up to the write it issues: a clone of the splash cropped
\* with (x, y, width, height); the cropped bitmap is width x height.
transformSplash(imageObj, settings, config, definition) ==
    LET x == CropOffset(imageObj.splash.width, definition.width)
        y == CropOffset(imageObj.splash.height, definition.height)
        width == definition.width
        height == definition.height
    IN  [path |-> outputFilePath(settings, config, definition),
         source |-> imageObj.splash,
         rect |-> <<x, y, width, height>>,
         width |-> width,
         height |-> height]

\* The definition modules generate requires, in the order it pushes them.
DefsOf(selected) ==
    Flatten([i \in DOMAIN selected |-> PLATFORMS[selected[i][1]].definitions])

\* Faulty variant: Q.map, every item started at once.
MapMayStart(inFlight) == TRUE

\* Q.mapSeries calls the mapper for the next item only when the promise of
\* the previous item is fulfilled.
MapSeriesMayStart(inFlight) == inFlight = {}

\* () => generate(g_imageObjects, g_settings) (index.js:291), up to the
\* Q.mapSeries over configs.
Then291 ==
    /\ pc = "then291"
    /\ LET defs == DefsOf(g_selectedPlatforms)
       IN  \E v \in [Range(defs) -> Variants] :
              /\ modules' = [d \in Range(defs) |-> DefinitionModule(d, v[d])]
              /\ configs' = [i \in DOMAIN defs |-> modules'[defs[i]]]
    /\ out' = Append(out, Display("header", "Generating files", <<>>))
    /\ ci' = 1
    /\ pc' = "mapConfigs"
    /\ UNCHANGED <<program_platforms, g_settings, value, err, g_selectedPlatforms,
                   g_imageObjects, imageObjects, di, pending, fs_dirs, fs_files, io>>

\* generateForConfig(imageObj, settings, config): issues fs.ensureDir.
GenerateForConfig ==
    /\ pc = "mapConfigs"
    /\ ci <= Len(configs)
    /\ io' = Append(io, Call("ensureDir",
                             PathJoin(g_settings.outputdirectory, configs[ci].path)))
    /\ pc' = "ensureDir"
    /\ UNCHANGED <<program_platforms, g_settings, value, err, g_selectedPlatforms,
                   g_imageObjects, imageObjects, modules, configs, ci, di, pending,
                   fs_dirs, fs_files, out>>

\* fs.ensureDir succeeds: the handler at index.js:223 starts Q.mapSeries over
\* config.definitions.
EnsureDir ==
    /\ pc = "ensureDir"
    /\ fs_dirs' = fs_dirs \cup {PathJoin(g_settings.outputdirectory, configs[ci].path)}
    /\ di' = 1
    /\ pc' = "mapDefs"
    /\ UNCHANGED <<program_platforms, g_settings, value, err, g_selectedPlatforms,
                   g_imageObjects, imageObjects, modules, configs, ci, pending,
                   fs_files, out, io>>

\* fs.ensureDir fails: its promise is rejected.
EnsureDirError ==
    /\ pc = "ensureDir"
    /\ err' = "ensureDir error"
    /\ pc' = Chain("rejected", "mapDefs")
    /\ UNCHANGED <<program_platforms, g_settings, value, g_selectedPlatforms,
                   g_imageObjects, imageObjects, modules, configs, ci, di, pending,
                   fs_dirs, fs_files, out, io>>

\* The mapper at index.js:226 for the next definition: clone, transform,
\* and hand the image to write(); the deferred stays pending.
Transform ==
    /\ pc = "mapDefs"
    /\ di <= Len(configs[ci].definitions)
    /\ MapSeriesMayStart(pending)
    /\ LET config == configs[ci]
           def == config.definitions[di]
           w == IF config.type = "icon"
                THEN transformIcon(g_imageObjects, g_settings, config, def)
                ELSE transformSplash(g_imageObjects, g_settings, config, def)
       IN  /\ pending' = pending \cup {w}
           /\ io' = Append(io, Call("write", w.path))
    /\ di' = di + 1
    /\ UNCHANGED <<program_platforms, g_settings, pc, value, err, g_selectedPlatforms,
                   g_imageObjects, imageObjects, modules, configs, ci, fs_dirs,
                   fs_files, out>>

\* clone / resize / crop / write throws inside the mapper: Q.mapSeries turns
\* the exception into a rejection.
TransformThrows ==
    /\ pc = "mapDefs"
    /\ di <= Len(configs[ci].definitions)
    /\ MapSeriesMayStart(pending)
    /\ err' = "transform error"
    /\ pc' = Chain("rejected", "mapDefs")
    /\ UNCHANGED <<program_platforms, g_settings, value, g_selectedPlatforms,
                   g_imageObjects, imageObjects, modules, configs, ci, di, pending,
                   fs_dirs, fs_files, out, io>>

\* write() calls back without an error: the file is on disk, defer.resolve().
WriteDone ==
    /\ pc = "mapDefs"
    /\ \E w \in pending :
          /\ pending' = pending \ {w}
          /\ fs_files' = {f \in fs_files : f.path # w.path}
                            \cup {[path |-> w.path, width |-> w.width, height |-> w.height]}
    /\ UNCHANGED <<program_platforms, g_settings, pc, value, err, g_selectedPlatforms,
                   g_imageObjects, imageObjects, modules, configs, ci, di, fs_dirs,
                   out, io>>

\* write() calls back with an error: `if (err) throw (err)` throws out of the
\* library's callback.  No promise is rejected; the exception is uncaught
\* and ends the process, the deferred never settles.
WriteError ==
    /\ pc = "mapDefs"
    /\ \E w \in pending : pending' = pending \ {w}
    /\ err' = "write error"
    /\ pc' = "uncaught"
    /\ UNCHANGED <<program_platforms, g_settings, value, g_selectedPlatforms,
                   g_imageObjects, imageObjects, modules, configs, ci, di, fs_dirs,
                   fs_files, out, io>>

\* Every definition's promise is fulfilled: the handler at index.js:233.
SetDone ==
    /\ pc = "mapDefs"
    /\ di > Len(configs[ci].definitions)
    /\ pending = {}
    /\ out' = Append(out, Display("success", "Generated files for",
                                  <<configs[ci].type, configs[ci].platform>>))
    /\ ci' = ci + 1
    /\ pc' = "mapConfigs"
    /\ UNCHANGED <<program_platforms, g_settings, value, err, g_selectedPlatforms,
                   g_imageObjects, imageObjects, modules, configs, di, pending,
                   fs_dirs, fs_files, io>>

\* Every config's promise is fulfilled: the handler at index.js:254.
Then254 ==
    /\ pc = "mapConfigs"
    /\ ci > Len(configs)
    /\ pc' = "done"
    /\ UNCHANGED <<program_platforms, g_settings, value, err, g_selectedPlatforms,
                   g_imageObjects, imageObjects, modules, configs, ci, di, pending,
                   fs_dirs, fs_files, out, io>>

\* .catch((err) => catchErrors(err)) at the entry point.
Catch ==
    /\ pc = "catch"
    /\ out' = IF err # "none" THEN Append(out, Display("log", "Error", <<err>>)) ELSE out
    /\ pc' = "failed"
    /\ UNCHANGED <<program_platforms, g_settings, value, err, g_selectedPlatforms,
                   g_imageObjects, imageObjects, modules, configs, ci, di, pending,
                   fs_dirs, fs_files, io>>

Next ==
    \/ Check \/ Then60 \/ Then61 \/ IconRead \/ IconReadError \/ Then107
    \/ Then110 \/ SplashRead \/ SplashReadError \/ Then111 \/ Then62 \/ Then65
    \/ PathExists \/ Then291 \/ GenerateForConfig \/ EnsureDir \/ EnsureDirError
    \/ Transform \/ TransformThrows \/ WriteDone \/ WriteError \/ SetDone
    \/ Then254 \/ Catch

Spec == Init /\ [][Next]_vars

----------------------------------------------------------------------------
(* Vocabulary of the properties *)

RegistryKeys == {<<"android">>, <<"ios">>, <<"windows">>, <<"blackberry10">>}
OutputDir == <<"resources">>

HasLine(msg) == \E i \in DOMAIN out : out[i].msg = msg
Issued(op) == \E i \in DOMAIN io : io[i].op = op
Lines(msg) == SelectSeq(out, LAMBDA l : l.msg = msg)
Calls(op) == SelectSeq(io, LAMBDA c : c.op = op)

\* The option text is a string with a token that is no registry key.
HasUnknownToken(v) ==
    /\ v.type = "string"
    /\ \E t \in Range(Split(v.val)) : t \notin RegistryKeys

\* The option text is a non-empty string whose tokens are all registry keys.
AllTokensKnown(v) ==
    /\ v.type = "string"
    /\ v.val # <<>>
    /\ \A t \in Range(Split(v.val)) : t \in RegistryKeys

PlatformsSelected ==
    HasLine("Processing files for") \/ HasLine("Processing files for all platforms")

AllChecksSucceeded ==
    /\ PlatformsSelected
    /\ HasLine("Icon file ok")
    /\ HasLine("Splash file ok")
    /\ HasLine("Output directory ok")

\* Nothing was written or created, and nothing was asked to be.
OutputUntouched ==
    /\ fs_files = {}
    /\ fs_dirs \subseteq {OutputDir}
    /\ pending = {}
    /\ ~Issued("ensureDir")
    /\ ~Issued("write")

Ended == pc \in {"done", "failed", "uncaught"}

\* The files a complete run has to produce, from the selection, the registry
\* and the definition modules that were loaded.
ExpectedFile(m, d) ==
    [path |-> OutputDir \o m.path \o <<d.name>>,
     width |-> IF m.type = "icon" THEN d.size ELSE d.width,
     height |-> IF m.type = "icon" THEN d.size ELSE d.height]

ExpectedFiles ==
    UNION {{ExpectedFile(modules[def], modules[def].definitions[k]) :
                k \in DOMAIN modules[def].definitions} : def \in DOMAIN modules}

\* The writes of a complete run, in order.
ExpectedWrites ==
    Flatten([i \in DOMAIN configs |->
                [k \in DOMAIN configs[i].definitions |->
                    ExpectedFile(configs[i], configs[i].definitions[k]).path]])

WritesIssued == [i \in DOMAIN Calls("write") |-> Calls("write")[i].arg]

----------------------------------------------------------------------------
\* C1: no output file is written and no output subdirectory is created (or
\* asked for) unless platform selection, the icon check, the splash check and
\* the output-directory check have all succeeded; an unknown platform token,
\* a wrongly sized image or a missing output directory leaves the output
\* directory as it was.
C1_NoOutputBeforeChecks ==
    /\ ~AllChecksSucceeded => OutputUntouched
    /\ HasUnknownToken(g_settings.platforms) => OutputUntouched
    /\ (HasLine("Bad icon file") \/ HasLine("Bad splash file")) => OutputUntouched
    /\ OutputDir \notin fs_dirs => (OutputUntouched /\ fs_dirs = {})

C1_Witness ==
    /\ program_platforms = JsString(<<"android", Comma, "bogus">>)
    /\ OutputDir \in fs_dirs
    /\ pc = "failed"
    /\ OutputUntouched

\* C2 as stated: every option text with a token that is no registry key
\* (the empty text has one empty token) makes checkPlatforms fail and
\* leaves g_selectedPlatforms empty.
C2_Original ==
    (HasUnknownToken(program_platforms) /\ pc # "check") =>
        /\ pc \in {"catch", "failed"}
        /\ err = "Bad platforms"
        /\ g_selectedPlatforms = <<>>

\* C2 amended: every NON-EMPTY option text with a token that is no registry
\* key makes checkPlatforms fail: the run goes to the catch handler with
\* "Bad platforms", nothing is selected and no check follows.
C2_UnknownTokenRejectsAll ==
    (HasUnknownToken(program_platforms) /\ program_platforms.val # <<>> /\ pc # "check") =>
        /\ pc \in {"catch", "failed"}
        /\ err = "Bad platforms"
        /\ g_selectedPlatforms = <<>>
        /\ HasLine("Bad platforms")
        /\ ~PlatformsSelected
        /\ io = <<>>

C2_Witness ==
    /\ program_platforms = JsString(<<"ios", Comma, " ">>)
    /\ pc = "failed"
    /\ g_selectedPlatforms = <<>>

\* C3: a non-empty option text whose tokens are all registry keys is accepted
\* and selects exactly its tokens, in the order given, duplicates kept; each
\* occurrence of a platform gets its definition sets generated.
C3_SelectionInInputOrder ==
    AllTokensKnown(program_platforms) =>
        LET tokens == Split(program_platforms.val)
        IN  /\ err # "Bad platforms"
            /\ pc = "then60" => value.list = tokens
            /\ pc \notin {"check", "then60"} => g_selectedPlatforms = tokens
            /\ pc \in {"mapConfigs", "ensureDir", "mapDefs", "done"} =>
                  [i \in DOMAIN configs |-> <<configs[i].platform>>]
                      = Flatten([i \in DOMAIN tokens |->
                                    IF tokens[i] = <<"blackberry10">>
                                    THEN <<tokens[i]>>
                                    ELSE <<tokens[i], tokens[i]>>])
            /\ pc = "done" => Len(Calls("ensureDir")) = Len(configs)

C3_Witness ==
    /\ program_platforms = JsString(<<"ios", Comma, "ios">>)
    /\ pc = "done"
    /\ g_selectedPlatforms = <<<<"ios">>, <<"ios">>>>
    /\ Len(Calls("ensureDir")) = 4

\* C4: without a platform filter (settings.platforms undefined, empty or not
\* a string) checkPlatforms succeeds with every registry key once, in the
\* order android, ios, windows, blackberry10.
C4_NoFilterSelectsAll ==
    (~Truthy(g_settings.platforms) \/ g_settings.platforms.type # "string") =>
        LET all == <<<<"android">>, <<"ios">>, <<"windows">>, <<"blackberry10">>>>
        IN  /\ err # "Bad platforms"
            /\ pc # "check" => HasLine("Processing files for all platforms")
            /\ pc = "then60" => value.list = all
            /\ pc \notin {"check", "then60"} => g_selectedPlatforms = all

C4_Witness ==
    /\ program_platforms = JsTrue
    /\ pc = "then61"
    /\ Len(g_selectedPlatforms) = 4

\* C5: a loaded source image passes if and only if width and height both
\* equal the required value (1024 for the icon, 2732 for the splash); any
\* other pair is rejected with the dimension error and is never stored in
\* imageObjects or g_imageObjects.
C5_ExactDimensionsOnly ==
    /\ \A i \in DOMAIN out :
          /\ out[i].msg = "Icon file ok" => out[i].arg = <<1024, 1024>>
          /\ out[i].msg = "Bad icon file" =>
                (out[i].arg # <<1024, 1024>> /\ Len(out[i].arg) = 2)
          /\ out[i].msg = "Splash file ok" => out[i].arg = <<2732, 2732>>
          /\ out[i].msg = "Bad splash file" =>
                (out[i].arg # <<2732, 2732>> /\ Len(out[i].arg) = 2)
    /\ (HasLine("Bad icon file") \/ HasLine("Bad splash file")) =>
          /\ pc \in {"catch", "failed"}
          /\ err = "Bad image format"
          /\ g_imageObjects = Undefined
    /\ HasLine("Bad icon file") => imageObjects.icon = Null
    /\ HasLine("Bad splash file") => imageObjects.splash = Null
    /\ imageObjects # Undefined =>
          /\ imageObjects.icon \in {Null, Image(1024, 1024)}
          /\ imageObjects.splash \in {Null, Image(2732, 2732)}
    /\ g_imageObjects # Undefined =>
          /\ g_imageObjects.icon = Image(1024, 1024)
          /\ g_imageObjects.splash = Image(2732, 2732)

C5_Witness ==
    /\ \E i \in DOMAIN out : out[i].msg = "Bad icon file" /\ out[i].arg = <<1024, 1023>>
    /\ pc = "failed"
    /\ imageObjects.icon = Null

\* C6: the checks run in the order platform selection, icon, splash, output
\* directory; a check starts only after every earlier one has succeeded, and
\* the first failure ends the checks: after a failed icon check the splash
\* is never read and the output directory never probed.
C6_ChecksInOrderShortCircuit ==
    /\ Len(io) >= 1 => (io[1] = Call("Jimp.read", g_settings.iconfile) /\ PlatformsSelected)
    /\ Len(io) >= 2 => (io[2] = Call("Jimp.read", g_settings.splashfile)
                          /\ HasLine("Icon file ok"))
    /\ Len(io) >= 3 => (io[3] = Call("pathExists", g_settings.outputdirectory)
                          /\ HasLine("Splash file ok"))
    /\ \A i \in DOMAIN io : i > 3 => io[i].op \in {"ensureDir", "write"}
    /\ Len(out) >= 2 => out[2].msg \in {"Processing files for",
                                         "Processing files for all platforms",
                                         "Bad platforms"}
    /\ \A i \in DOMAIN out :
          out[i].level = "error" =>
              /\ pc \in {"catch", "failed"}
              /\ \A j \in DOMAIN out : j > i => out[j].msg = "Error"
    /\ HasLine("Bad platforms") => io = <<>>
    /\ (HasLine("Bad icon file") \/ HasLine("Could not load icon file")) => Len(io) = 1
    /\ (HasLine("Bad splash file") \/ HasLine("Could not load splash file")) => Len(io) = 2
    /\ HasLine("Output directory not found") => Len(io) = 3

C6_Witness ==
    /\ \E i \in DOMAIN out : out[i].msg = "Bad icon file" /\ out[i].arg = <<512, 512>>
    /\ pc = "failed"
    /\ Len(io) = 1
    /\ ~Issued("pathExists")

\* C7 as stated: a failed write or transform reaches the catch handler of the
\* entry point, which reports it; a run that has ended has either generated
\* everything or reported its error.
C7_FailureReachesCatch ==
    /\ err \in {"write error", "transform error"} => pc \in {"catch", "failed"}
    /\ Ended => (pc = "done" \/ (HasLine("Error") /\ out[Len(out)].arg = <<err>>))

\* C8: when a run completes, the files on disk are exactly
\* outputDirectory/set.path/def.name for every selected platform, every
\* definition set of it and every definition of the set, each icon file
\* size x size and each splash file width x height; blackberry10, which has
\* only an icon set, yields no splash file.
C8_ExactOutputFiles ==
    pc = "done" =>
        /\ fs_files = ExpectedFiles
        /\ DOMAIN modules =
              UNION {Range(PLATFORMS[t[1]].definitions) : t \in Range(g_selectedPlatforms)}
        /\ \A f \in fs_files, g \in fs_files : f.path = g.path => f = g
        /\ \A f \in fs_files : f.path[2] = "blackberry10" => f.path[3] = "icon"
        /\ Range(g_selectedPlatforms) = {<<"blackberry10">>} =>
              \A f \in fs_files : f.width = f.height /\ f.path[3] = "icon"

C8_Witness ==
    /\ program_platforms = JsString(<<"android">>)
    /\ pc = "done"
    /\ Cardinality(fs_files) = 4
    /\ [path |-> <<"resources", "android", "splash", "splash-775x375.png">>,
        width |-> 775, height |-> 375] \in fs_files

\* C9 (state part): at most one write is in flight; writes start in the
\* order selected platforms / definition sets / definitions, each only after
\* the previous file is on disk; a set's success line comes only after all
\* its files are on disk.
C9_StateInv ==
    /\ Cardinality(pending) <= 1
    /\ pc \in {"mapConfigs", "ensureDir", "mapDefs", "done", "uncaught"} =>
          /\ Len(WritesIssued) <= Len(ExpectedWrites)
          /\ WritesIssued = SubSeq(ExpectedWrites, 1, Len(WritesIssued))
          /\ \A i \in DOMAIN WritesIssued :
                i < Len(WritesIssued) => \E f \in fs_files : f.path = WritesIssued[i]
          /\ \A w \in pending : w.path = WritesIssued[Len(WritesIssued)]
          /\ Len(Lines("Generated files for")) <= Len(configs)
          /\ \A j \in DOMAIN Lines("Generated files for") :
                /\ Lines("Generated files for")[j].arg
                      = <<configs[j].type, configs[j].platform>>
                /\ \A k \in DOMAIN configs[j].definitions :
                      ExpectedFile(configs[j], configs[j].definitions[k]) \in fs_files
    /\ ~Issued("write") => fs_files = {}

\* C9: generation is strictly sequential (C9_StateInv), and after a failed
\* write or transform no further write starts.
C9_StrictlySequential ==
    /\ []C9_StateInv
    /\ [][(err \in {"write error", "transform error", "ensureDir error"})
             => (io' = io /\ fs_files' = fs_files)]_vars

C9_Witness ==
    /\ pc = "mapDefs"
    /\ Cardinality(pending) = 1
    /\ Len(WritesIssued) >= 4
    /\ Len(Lines("Generated files for")) >= 1

\* A crop rectangle <<x, y, w, h>> of the 2732 x 2732 source for a definition
\* width x height: x = (2732 - width) / 2 and y = (2732 - height) / 2 exactly,
\* equal margins on both sides, inside the source.
CenteredInside(rect, width, height) ==
    LET x == rect[1]
        y == rect[2]
    IN  /\ rect[3] = width /\ rect[4] = height
        /\ x.num * 2 = (2732 - width) * x.den
        /\ y.num * 2 = (2732 - height) * y.den
        /\ x.num = (2732 - width) * x.den - x.num
        /\ y.num = (2732 - height) * y.den - y.num
        /\ x.num >= 0 /\ x.num + width * x.den <= 2732 * x.den
        /\ y.num >= 0 /\ y.num + height * y.den <= 2732 * y.den

\* C10 as stated: every crop rectangle is centered, inside the source and
\* has integer offsets, also when the difference of the dimensions is odd.
C10_Original ==
    \A w \in pending :
        w.rect # <<>> =>
            /\ CenteredInside(w.rect, w.width, w.height)
            /\ IsInteger(w.rect[1]) /\ IsInteger(w.rect[2])
            /\ g_imageObjects.splash = Image(2732, 2732)

\* C10 amended: every crop rectangle is x = (2732 - width) / 2,
\* y = (2732 - height) / 2 in exact division, w = width, h = height; it is
\* centered and inside the source; an offset is an integer exactly when the
\* difference it halves is even; the stored splash image stays 2732 x 2732
\* and the cropped clone is width x height.
C10_CenteredCrop ==
    \A w \in pending :
        w.rect # <<>> =>
            /\ w.width <= 2732 /\ w.height <= 2732
            /\ CenteredInside(w.rect, w.width, w.height)
            /\ IsInteger(w.rect[1]) <=> (2732 - w.width) % 2 = 0
            /\ IsInteger(w.rect[2]) <=> (2732 - w.height) % 2 = 0
            /\ w.source = Image(2732, 2732)
            /\ g_imageObjects.splash = Image(2732, 2732)

C10_Witness ==
    \E w \in pending :
        /\ w.rect # <<>>
        /\ w.width = 775 /\ w.height = 375
        /\ ~IsInteger(w.rect[1])
        /\ g_imageObjects.splash = Image(2732, 2732)

====
